---- MODULE Spec2Model ----
(***************************************************************************)
(* kill_tree: terminate a process together with all of its descendants.    *)
(*                                                                         *)
(* The model follows crates/libs/kill_tree/src: common.rs (tree model,     *)
(* breadth-first traversal, execution driver), windows.rs (validation,     *)
(* filter, Terminator, blocking and tokio variants) and macos.rs           *)
(* (declared maximum process id, validation entry point).                  *)
(***************************************************************************)
EXTENDS Integers, Sequences, FiniteSets, TLC

VARIABLES
    pc,                    \* position of the call in kill_tree / kill_tree_internal
    platform,              \* adapter selected by cfg: "windows" or "macos"
    mode,                  \* "blocking" or "tokio"
    process_id,            \* the target process id (u32)
    include_target,        \* Config.include_target
    validated,             \* outcome of validate_process_id: "none", "ok", "err"
    enumerated,            \* number of calls of the Snapshot Provider
    process_infos,         \* ProcessInfos: the snapshot, in enumeration order
    child_process_id_map,  \* ChildProcessIdMap
    queue,                 \* VecDeque of the breadth-first search
    process_ids_to_kill,   \* discovery order
    process_info_map,      \* ProcessInfoMap
    next_index,            \* number of ids of the reversed list already consumed
    outputs,               \* Outputs gathered so far
    result,                \* value returned by the call
    kill_log,              \* history: every kill invocation with its outcome
    terminated,            \* OS state: ids on which TerminateProcess succeeded
    in_flight,             \* tokio: positions of the list whose kill task is running
    blocking_run,          \* history of the completed earlier run (for comparison)
    adapter                \* locals of the platform adapter function being executed

vars == << pc, platform, mode, process_id, include_target, validated, enumerated,
           process_infos, child_process_id_map, queue, process_ids_to_kill,
           process_info_map, next_index, outputs, result, kill_log, terminated,
           in_flight, blocking_run, adapter >>

(***************************************************************************)
(* Bounds of the model.                                                    *)
(***************************************************************************)
\* process ids of the snapshot entries are 1..MaxPid, parent ids 0..MaxPid
MaxPid == 3

(***************************************************************************)
(* Program constants.                                                      *)
(***************************************************************************)
SYSTEM_IDLE_PROCESS_PROCESS_ID == 0
SYSTEM_PROCESS_ID == 4
AVAILABLE_MAX_PROCESS_ID == 99999 - 1
\* windows.rs declares no maximum below the range of ProcessId (u32); the top
\* of the id range is held here as 2^31 - 1, the largest integer of the model
WINDOWS_AVAILABLE_MAX_PROCESS_ID == 2147483647

Platforms == {"windows", "macos"}

(***************************************************************************)
(* Sequence helpers.                                                       *)
(***************************************************************************)
Range(s) == {s[i] : i \in 1..Len(s)}

Reverse(s) == [i \in 1..Len(s) |-> s[Len(s) + 1 - i]]

Last(s) == s[Len(s)]

(***************************************************************************)
(* Results and errors (crate::core, used by all three files).              *)
(***************************************************************************)
Ok == [tag |-> "Ok"]

InvalidProcessId(id, reason) ==
    [tag |-> "Err", kind |-> "InvalidProcessId", process_id |-> id, reason |-> reason]

ProcessIdTooLarge(id, available_max) ==
    [tag |-> "Err", kind |-> "InvalidProcessId", process_id |-> id,
     reason |-> "Process id is too large", available_max |-> available_max]

WindowsError(code) == [tag |-> "Err", kind |-> "Windows", code |-> code]

JoinError == [tag |-> "Err", kind |-> "TokioJoin", code |-> "JoinError"]

Pending == [tag |-> "Pending"]

OkOutputs(outs) == [tag |-> "Ok", outputs |-> outs]

None == [tag |-> "None"]

KilledOutput(id) == [tag |-> "Killed", process_id |-> id]

MaybeAlreadyTerminated(id, source) ==
    [tag |-> "MaybeAlreadyTerminated", process_id |-> id, source |-> source]

\* the name of the process is carried along with the parent id and is left out
OutputKilled(info) ==
    [tag |-> "Killed", process_id |-> info.process_id,
     parent_process_id |-> info.parent_process_id]

\* HRESULT codes the Win32 calls of the adapter are given in the model
OpenProcessResults == {"S_OK", "E_INVALIDARG", "E_ACCESSDENIED"}
TerminateProcessResults == {"S_OK", "E_ACCESSDENIED", "E_FAIL"}
CloseHandleResults == {"S_OK", "E_FAIL"}

\* the results of the Win32 calls one kill can make; "-" is a call not made
KillCalls ==
    {[open |-> o, term |-> "-", close |-> "-"] : o \in OpenProcessResults \ {"S_OK"}}
    \cup {[open |-> "S_OK", term |-> t, close |-> c] :
             t \in TerminateProcessResults, c \in CloseHandleResults}

(***************************************************************************)
(* Validation.                                                             *)
(***************************************************************************)
\* windows.rs validate_process_id with the System process forgotten
WindowsValidateForgetsSystem(id) ==
    IF id = SYSTEM_IDLE_PROCESS_PROCESS_ID
    THEN InvalidProcessId(id, "Not allowed to kill System Idle Process")
    ELSE Ok

WindowsValidateProcessId(id) ==
    CASE id = SYSTEM_IDLE_PROCESS_PROCESS_ID ->
             InvalidProcessId(id, "Not allowed to kill System Idle Process")
      [] id = SYSTEM_PROCESS_ID ->
             InvalidProcessId(id, "Not allowed to kill System")
      [] OTHER -> Ok

\* crate::unix::validate_process_id(process_id, available_max)
UnixValidateProcessId(id, available_max) ==
    CASE id = 0 -> InvalidProcessId(id, "Not allowed to kill kernel process")
      [] id > available_max -> ProcessIdTooLarge(id, available_max)
      [] OTHER -> Ok

\* Impl::validate_process_id of the selected adapter
ValidateProcessId(p, id) ==
    IF p = "windows"
    THEN WindowsValidateProcessId(id)
    ELSE UnixValidateProcessId(id, AVAILABLE_MAX_PROCESS_ID)

\* common.rs get_available_max_process_id
GetAvailableMaxProcessId(p) ==
    IF p = "windows" THEN WINDOWS_AVAILABLE_MAX_PROCESS_ID ELSE AVAILABLE_MAX_PROCESS_ID

(***************************************************************************)
(* Tree model.                                                             *)
(***************************************************************************)
\* a filter that keeps every entry, as for a platform without self-parents
ChildProcessIdMapFilterNone(info) == FALSE

\* windows child_process_id_map_filter: the entry is its own parent
ChildProcessIdMapFilter(info) == info.parent_process_id = info.process_id

RECURSIVE PushChildren(_, _)
\* the children list of one parent key, in push order (first loop)
PushChildren(infos, parent) ==
    IF infos = << >> THEN << >>
    ELSE LET info == Head(infos)
             rest == PushChildren(Tail(infos), parent)
         IN  IF ~ChildProcessIdMapFilter(info) /\ info.parent_process_id = parent
             THEN << info.process_id >> \o rest
             ELSE rest

RECURSIVE Insert(_, _)
Insert(x, sorted) ==
    IF sorted = << >> THEN << x >>
    ELSE IF x <= Head(sorted) THEN << x >> \o sorted
         ELSE << Head(sorted) >> \o Insert(x, Tail(sorted))

\* the children lists left in the order the entries were pushed
SortUnstableKeepsOrder(s) == s

RECURSIVE SortUnstable(_)
\* children.sort_unstable(): ascending
SortUnstable(s) ==
    IF s = << >> THEN << >> ELSE Insert(Head(s), SortUnstable(Tail(s)))

GetChildProcessIdMap(infos) ==
    LET kept == {i \in 1..Len(infos) : ~ChildProcessIdMapFilter(infos[i])}
        keys == {infos[i].parent_process_id : i \in kept}
    IN  [k \in keys |-> SortUnstable(PushChildren(infos, k))]

\* map.insert for every entry in order: a later entry replaces an earlier one
GetProcessInfoMap(infos) ==
    LET ids == {infos[i].process_id : i \in 1..Len(infos)}
        last(id) == CHOOSE i \in 1..Len(infos) :
                       /\ infos[i].process_id = id
                       /\ \A j \in (i + 1)..Len(infos) : infos[j].process_id # id
    IN  [id \in ids |-> infos[last(id)]]

(***************************************************************************)
(* Output enrichment.                                                      *)
(***************************************************************************)
MapRemove(map, id) == [k \in (DOMAIN map) \ {id} |-> map[k]]

\* parse_kill_output reporting a killed process it has no entry for, with
\* parent id 0
ParseKillOutputReportsUnknown(kill_output, map) ==
    IF kill_output.tag = "Killed"
    THEN IF kill_output.process_id \in DOMAIN map
         THEN [output |-> OutputKilled(map[kill_output.process_id]),
               map    |-> MapRemove(map, kill_output.process_id)]
         ELSE [output |-> OutputKilled([process_id        |-> kill_output.process_id,
                                        parent_process_id |-> 0]),
               map    |-> map]
    ELSE [output |-> kill_output, map |-> map]

\* parse_kill_output reading the entry with get instead of remove
ParseKillOutputKeepsEntry(kill_output, map) ==
    IF kill_output.tag = "Killed"
    THEN IF kill_output.process_id \in DOMAIN map
         THEN [output |-> OutputKilled(map[kill_output.process_id]), map |-> map]
         ELSE [output |-> None, map |-> map]
    ELSE [output |-> kill_output, map |-> map]

\* parse_kill_output looking every outcome up in the map before the match
ParseKillOutputLooksUpFirst(kill_output, map) ==
    IF kill_output.process_id \in DOMAIN map
    THEN [output |-> IF kill_output.tag = "Killed"
                     THEN OutputKilled(map[kill_output.process_id])
                     ELSE kill_output,
          map    |-> MapRemove(map, kill_output.process_id)]
    ELSE [output |-> None, map |-> map]

\* returns the Option<Output> and the ProcessInfoMap left behind
ParseKillOutput(kill_output, map) ==
    IF kill_output.tag = "Killed"
    THEN IF kill_output.process_id \in DOMAIN map
         THEN [output |-> OutputKilled(map[kill_output.process_id]),
               map    |-> MapRemove(map, kill_output.process_id)]
         ELSE [output |-> None, map |-> map]
    ELSE [output |-> kill_output, map |-> map]

(***************************************************************************)
(* Windows Terminator.                                                     *)
(***************************************************************************)
\* blocking::kill, given the HRESULTs of OpenProcess, TerminateProcess and
\* CloseHandle; terminated: TerminateProcess took effect; opened, closed: the
\* process handle was obtained, CloseHandle was called on it
WindowsKill(id, open, term, close) ==
    IF open = "S_OK"
    THEN LET res == IF term = "S_OK" THEN KilledOutput(id)
                    ELSE IF term = "E_ACCESSDENIED"
                         THEN MaybeAlreadyTerminated(id, term)
                         ELSE WindowsError(term)
         IN  [output     |-> IF close = "S_OK" THEN res ELSE WindowsError(close),
              terminated |-> term = "S_OK",
              opened     |-> TRUE,
              closed     |-> TRUE]
    ELSE [output     |-> IF open = "E_INVALIDARG"
                         THEN MaybeAlreadyTerminated(id, open)
                         ELSE WindowsError(open),
          terminated |-> FALSE,
          opened     |-> FALSE,
          closed     |-> FALSE]

(***************************************************************************)
(* Inputs.                                                                 *)
(***************************************************************************)
ProcessInfoRecords == [process_id : 1..MaxPid, parent_process_id : 0..MaxPid]

\* ProcessId is unique at a given instant: one entry per process id, any order
UniqueIds(infos) ==
    \A i, j \in 1..Len(infos) : infos[i].process_id = infos[j].process_id => i = j

Ascending(infos) ==
    \A i \in 1..(Len(infos) - 1) : infos[i].process_id < infos[i + 1].process_id

Descending(infos) ==
    \A i \in 1..(Len(infos) - 1) : infos[i].process_id > infos[i + 1].process_id

\* what a successful enumeration can return: Process32First pushes one entry
\* before the walk can end, so the list is never empty; the walk is taken to
\* yield the processes by ascending or by descending id
Snapshots ==
    {infos \in UNION {[1..n -> ProcessInfoRecords] : n \in 1..MaxPid} :
        Ascending(infos) \/ Descending(infos)}

\* inputs of a direct call of kill_tree_internal in which a process id occurs
\* twice: a snapshot followed by a second entry for one of its ids
DuplicateInfos ==
    UNION {{Append(infos, again) :
               again \in {r \in ProcessInfoRecords :
                             \E i \in 1..Len(infos) : infos[i].process_id = r.process_id}} :
           infos \in {s \in Snapshots : Ascending(s)}}

\* the target ids of those direct calls
InternalTargetIds == {1, 2}

\* the ids validation is given: around 0, around the System process id, around
\* the declared maximum of macos and at the top of the id range
ValidationIds ==
    (0..(SYSTEM_PROCESS_ID + 1))
    \cup ((AVAILABLE_MAX_PROCESS_ID - 2)..(AVAILABLE_MAX_PROCESS_ID + 3))
    \cup {WINDOWS_AVAILABLE_MAX_PROCESS_ID - 1, WINDOWS_AVAILABLE_MAX_PROCESS_ID}

\* target ids: the ids of the snapshot, the two protected ids and an id that
\* no snapshot entry carries
TargetIds ==
    (0..MaxPid) \cup {SYSTEM_IDLE_PROCESS_PROCESS_ID, SYSTEM_PROCESS_ID, MaxPid + 2}

\* the breadth-first search of a snapshot with a parent cycle never returns; the
\* model stops following it once more ids are listed than any snapshot holds
VisitCap == MaxPid + 2

(***************************************************************************)
(* Snapshot Provider (windows).                                            *)
(***************************************************************************)
\* blocking::get_process_infos, given the HRESULTs of CreateToolhelp32Snapshot,
\* Process32First, the Process32Next that ends the walk and CloseHandle, and
\* the entries the walk yields
WindowsGetProcessInfos(create, first, entries, last, close) ==
    IF create # "S_OK" THEN WindowsError(create)
    ELSE IF close # "S_OK" THEN WindowsError(close)
    ELSE IF first # "S_OK" THEN WindowsError(first)
    ELSE IF last # "ERROR_NO_MORE_FILES" THEN WindowsError(last)
    ELSE [tag |-> "Ok", process_infos |-> entries]

(***************************************************************************)
(* State machine.                                                          *)
(***************************************************************************)
InitCall(ps, ids) ==
    /\ pc = "validate"
    /\ platform \in ps
    /\ mode = "blocking"
    /\ process_id \in ids
    /\ include_target \in BOOLEAN
    /\ validated = "none"
    /\ enumerated = 0
    /\ process_infos = << >>
    /\ child_process_id_map = << >>
    /\ queue = << >>
    /\ process_ids_to_kill = << >>
    /\ process_info_map = << >>
    /\ next_index = 0
    /\ outputs = << >>
    /\ result = Pending
    /\ kill_log = << >>
    /\ terminated = {}
    /\ in_flight = {}
    /\ blocking_run = None
    /\ adapter = None

Init == InitCall({"windows"}, TargetIds)

\* kill_tree checking the validation result only after the enumeration
KillTreeValidateLate ==
    /\ pc = "validate"
    /\ validated' = IF ValidateProcessId(platform, process_id).tag = "Ok" THEN "ok" ELSE "err"
    /\ pc' = "get_process_infos"
    /\ UNCHANGED << adapter, platform, mode, process_id, include_target, enumerated, result,
                    process_infos, child_process_id_map, queue, process_ids_to_kill,
                    process_info_map, next_index, outputs, kill_log, terminated,
                    in_flight, blocking_run >>

\* kill_tree: validate_process_id(process_id)?
KillTreeValidate ==
    /\ pc = "validate"
    /\ LET v == ValidateProcessId(platform, process_id)
       IN  IF v.tag = "Ok"
           THEN /\ validated' = "ok"
                /\ pc' = "get_process_infos"
                /\ UNCHANGED result
           ELSE /\ validated' = "err"
                /\ pc' = "done"
                /\ result' = v
    /\ UNCHANGED << adapter, platform, mode, process_id, include_target, enumerated,
                    process_infos, child_process_id_map, queue, process_ids_to_kill,
                    process_info_map, next_index, outputs, kill_log, terminated,
                    in_flight, blocking_run >>

\* kill_tree: let process_infos = get_process_infos()?
GetProcessInfos ==
    /\ pc = "get_process_infos"
    /\ \E create \in {"S_OK", "E_FAIL"}, first \in {"S_OK", "E_FAIL"},
          last \in {"ERROR_NO_MORE_FILES", "E_FAIL"}, close \in {"S_OK", "E_FAIL"},
          entries \in Snapshots :
          LET r == WindowsGetProcessInfos(create, first, entries, last, close)
          IN  IF r.tag = "Ok"
              THEN /\ process_infos' = r.process_infos
                   /\ pc' = "kill_tree_internal"
                   /\ UNCHANGED result
              ELSE /\ pc' = "done"
                   /\ result' = r
                   /\ UNCHANGED process_infos
    /\ enumerated' = enumerated + 1
    /\ UNCHANGED << adapter, platform, mode, process_id, include_target, validated,
                    child_process_id_map, queue, process_ids_to_kill,
                    process_info_map, next_index, outputs, kill_log, terminated,
                    in_flight, blocking_run >>

\* kill_tree_internal, lines 106-107, and get_process_ids_to_kill up to its loop
BuildChildProcessIdMap ==
    /\ pc = "kill_tree_internal"
    /\ child_process_id_map' = GetChildProcessIdMap(process_infos)
    /\ process_ids_to_kill' = << >>
    /\ queue' = << process_id >>
    /\ pc' = "get_process_ids_to_kill"
    /\ UNCHANGED << adapter, platform, mode, process_id, include_target, validated, enumerated,
                    process_infos, process_info_map, next_index, outputs, result,
                    kill_log, terminated, in_flight, blocking_run >>

\* the iteration enqueueing only the first child of the dequeued id
BfsVisitFirstChild(id, rest, list, map, target, include) ==
    [list  |-> IF id = target
               THEN IF include THEN Append(list, id) ELSE list
               ELSE Append(list, id),
     queue |-> IF id \in DOMAIN map THEN Append(rest, Head(map[id])) ELSE rest]

\* the iteration leaving the loop body early when the target is skipped
BfsVisitSkipsSubtree(id, rest, list, map, target, include) ==
    IF id = target /\ ~include
    THEN [list |-> list, queue |-> rest]
    ELSE [list  |-> Append(list, id),
          queue |-> IF id \in DOMAIN map THEN rest \o map[id] ELSE rest]

\* the iteration putting the children at the front of the queue
BfsVisitDepthFirst(id, rest, list, map, target, include) ==
    [list  |-> IF id = target
               THEN IF include THEN Append(list, id) ELSE list
               ELSE Append(list, id),
     queue |-> IF id \in DOMAIN map THEN map[id] \o rest ELSE rest]

\* one iteration of `while let Some(process_id) = queue.pop_front()`
BfsVisit(id, rest, list, map, target, include) ==
    [list  |-> IF id = target
               THEN IF include THEN Append(list, id) ELSE list
               ELSE Append(list, id),
     queue |-> IF id \in DOMAIN map THEN rest \o map[id] ELSE rest]

BfsStep ==
    /\ pc = "get_process_ids_to_kill"
    /\ queue # << >>
    /\ Len(process_ids_to_kill) < VisitCap
    /\ LET v == BfsVisit(Head(queue), Tail(queue), process_ids_to_kill,
                         child_process_id_map, process_id, include_target)
       IN  /\ process_ids_to_kill' = v.list
           /\ queue' = v.queue
    /\ UNCHANGED << adapter, pc, platform, mode, process_id, include_target, validated,
                    enumerated, process_infos, child_process_id_map, process_info_map,
                    next_index, outputs, result, kill_log, terminated, in_flight,
                    blocking_run >>

\* the search returns; kill_tree_internal lines 110-112: new_killer, Outputs::new,
\* get_process_info_map
BfsReturn ==
    /\ pc = "get_process_ids_to_kill"
    /\ queue = << >>
    /\ outputs' = << >>
    /\ process_info_map' = GetProcessInfoMap(process_infos)
    /\ next_index' = 0
    /\ pc' = "kill_loop"
    /\ UNCHANGED << adapter, platform, mode, process_id, include_target, validated, enumerated,
                    process_infos, child_process_id_map, queue, process_ids_to_kill,
                    result, kill_log, terminated, in_flight, blocking_run >>

\* the loop without .rev(): discovery order
CurrentIdForward == process_ids_to_kill[next_index + 1]

\* the id the loop `for &process_id in process_ids_to_kill.iter().rev()` is at
CurrentId == Reverse(process_ids_to_kill)[next_index + 1]

\* the loop body logging a failed kill and going on to the next id
LoopBodyGoesOn(kill_output, outs, map) ==
    IF kill_output.tag = "Err"
    THEN [pc |-> "kill_loop", result |-> Pending, outputs |-> outs, map |-> map]
    ELSE LET parsed == ParseKillOutput(kill_output, map)
         IN  [pc      |-> "kill_loop",
              result  |-> Pending,
              outputs |-> IF parsed.output = None THEN outs
                          ELSE Append(outs, parsed.output),
              map     |-> parsed.map]

\* the body of the loop once killer.kill(process_id) has returned kill_output:
\* `?`, parse_kill_output, outputs.push
LoopBody(kill_output, outs, map) ==
    IF kill_output.tag = "Err"
    THEN [pc |-> "done", result |-> kill_output, outputs |-> outs, map |-> map]
    ELSE LET parsed == ParseKillOutput(kill_output, map)
         IN  [pc      |-> "kill_loop",
              result  |-> Pending,
              outputs |-> IF parsed.output = None THEN outs
                          ELSE Append(outs, parsed.output),
              map     |-> parsed.map]

\* blocking: one iteration of the loop of kill_tree_internal
KillStep ==
    /\ pc = "kill_loop"
    /\ mode = "blocking"
    /\ next_index < Len(process_ids_to_kill)
    /\ \E calls \in KillCalls :
          LET k    == WindowsKill(CurrentId, calls.open, calls.term, calls.close)
              body == LoopBody(k.output, outputs, process_info_map)
          IN  /\ kill_log' = Append(kill_log, [process_id |-> CurrentId,
                                                calls |-> calls, output |-> k.output])
              /\ terminated' = IF k.terminated THEN terminated \cup {CurrentId}
                               ELSE terminated
              /\ pc' = body.pc
              /\ result' = body.result
              /\ outputs' = body.outputs
              /\ process_info_map' = body.map
    /\ next_index' = next_index + 1
    /\ UNCHANGED << adapter, platform, mode, process_id, include_target, validated, enumerated,
                    process_infos, child_process_id_map, queue, process_ids_to_kill,
                    in_flight, blocking_run >>

\* kill_tree_internal: Ok(outputs)
KillTreeReturn ==
    /\ pc = "kill_loop"
    /\ next_index = Len(process_ids_to_kill)
    /\ result' = OkOutputs(outputs)
    /\ pc' = "done"
    /\ UNCHANGED << adapter, platform, mode, process_id, include_target, validated, enumerated,
                    process_infos, child_process_id_map, queue, process_ids_to_kill,
                    process_info_map, next_index, outputs, kill_log, terminated,
                    in_flight, blocking_run >>

KillTreeInternal ==
    \/ BuildChildProcessIdMap
    \/ BfsStep
    \/ BfsReturn
    \/ KillStep
    \/ KillTreeReturn

Next ==
    \/ KillTreeValidate
    \/ GetProcessInfos
    \/ KillTreeInternal

Spec == Init /\ [][Next]_vars

(***************************************************************************)
(* Concurrent (tokio) variant.                                             *)
(***************************************************************************)
NoCalls == [open |-> "-", term |-> "-", close |-> "-"]

\* tokio::kill reporting every failure of the task as a join failure
TokioKillFlattensError(blocking_result, join) ==
    IF join = "JoinError" \/ blocking_result.tag = "Err" THEN JoinError ELSE blocking_result

\* tokio::kill: spawn_blocking(move || blocking::kill(process_id)).await?
\* the `?` turns a task that could not be joined into an error, otherwise the
\* result of blocking::kill is returned as it is
TokioKill(blocking_result, join) ==
    IF join = "JoinError" THEN JoinError ELSE blocking_result

\* the blocking run is over; the same call (same snapshot, target and Config)
\* is made through the tokio variant, from a system in the same state
StartTokioRun ==
    /\ pc = "done"
    /\ mode = "blocking"
    /\ process_infos # << >>
    /\ blocking_run' = [tag |-> "Run", kill_log |-> kill_log, result |-> result,
                        terminated |-> terminated]
    /\ mode' = "tokio"
    /\ pc' = "kill_tree_internal"
    /\ child_process_id_map' = << >>
    /\ queue' = << >>
    /\ process_ids_to_kill' = << >>
    /\ process_info_map' = << >>
    /\ next_index' = 0
    /\ outputs' = << >>
    /\ result' = Pending
    /\ kill_log' = << >>
    /\ terminated' = {}
    /\ UNCHANGED << adapter, platform, process_id, include_target, validated, enumerated,
                    process_infos, in_flight >>

\* the Win32 results the k-th kill meets: those the blocking run met at its
\* k-th kill, any when the blocking run made no k-th kill
CallsAt(k) ==
    IF blocking_run.tag = "Run" /\ k <= Len(blocking_run.kill_log)
    THEN {blocking_run.kill_log[k].calls}
    ELSE KillCalls

\* the task spawned and not awaited: the loop goes on to the next id at once
TokioKillSpawnDetached ==
    /\ pc = "kill_loop"
    /\ mode = "tokio"
    /\ next_index < Len(process_ids_to_kill)
    /\ in_flight' = in_flight \cup {next_index + 1}
    /\ next_index' = next_index + 1
    /\ UNCHANGED << adapter, pc, platform, mode, process_id, include_target, validated,
                    enumerated, process_infos, child_process_id_map, queue,
                    process_ids_to_kill, process_info_map, outputs, result, kill_log,
                    terminated, blocking_run >>

\* killer.kill(process_id) is called: the blocking task is spawned
TokioKillSpawn ==
    /\ pc = "kill_loop"
    /\ mode = "tokio"
    /\ next_index < Len(process_ids_to_kill)
    /\ in_flight' = in_flight \cup {next_index + 1}
    /\ pc' = "kill_await"
    /\ UNCHANGED << adapter, platform, mode, process_id, include_target, validated, enumerated,
                    process_infos, child_process_id_map, queue, process_ids_to_kill,
                    process_info_map, next_index, outputs, result, kill_log,
                    terminated, blocking_run >>

\* the spawned task is joined: `.await?`, then the rest of the loop body
TokioKillJoin ==
    /\ pc = "kill_await"
    /\ mode = "tokio"
    /\ \E join \in {"Joined", "JoinError"}, met \in CallsAt(next_index + 1) :
          LET calls == IF join = "Joined" THEN met ELSE NoCalls
              k     == WindowsKill(CurrentId, met.open, met.term, met.close)
              out   == TokioKill(k.output, join)
              body  == LoopBody(out, outputs, process_info_map)
          IN  /\ kill_log' = Append(kill_log, [process_id |-> CurrentId,
                                                calls |-> calls, output |-> out])
              /\ terminated' = IF join = "Joined" /\ k.terminated
                               THEN terminated \cup {CurrentId}
                               ELSE terminated
              /\ pc' = body.pc
              /\ result' = body.result
              /\ outputs' = body.outputs
              /\ process_info_map' = body.map
    /\ in_flight' = in_flight \ {next_index + 1}
    /\ next_index' = next_index + 1
    /\ UNCHANGED << adapter, platform, mode, process_id, include_target, validated, enumerated,
                    process_infos, child_process_id_map, queue, process_ids_to_kill,
                    blocking_run >>

NextModes ==
    \/ Next
    \/ StartTokioRun
    \/ TokioKillSpawn
    \/ TokioKillJoin

\* the blocking call followed by the same call through the tokio variant
SpecModes == Init /\ [][NextModes]_vars

(***************************************************************************)
(* Validation alone, on both adapters.                                     *)
(***************************************************************************)
InitValidate == InitCall(Platforms, ValidationIds)

SpecValidate == InitValidate /\ [][KillTreeValidate]_vars

(***************************************************************************)
(* kill_tree_internal called on process infos that repeat a process id.    *)
(***************************************************************************)
InitInternal ==
    /\ pc = "kill_tree_internal"
    /\ platform = "windows"
    /\ mode = "blocking"
    /\ process_id \in InternalTargetIds
    /\ include_target \in BOOLEAN
    /\ validated = "none"
    /\ enumerated = 0
    /\ process_infos \in DuplicateInfos
    /\ child_process_id_map = << >>
    /\ queue = << >>
    /\ process_ids_to_kill = << >>
    /\ process_info_map = << >>
    /\ next_index = 0
    /\ outputs = << >>
    /\ result = Pending
    /\ kill_log = << >>
    /\ terminated = {}
    /\ in_flight = {}
    /\ blocking_run = None
    /\ adapter = None

SpecInternal == InitInternal /\ [][KillTreeInternal]_vars

(***************************************************************************)
(* The snapshot as a graph, read off the entries themselves.               *)
(***************************************************************************)
Entries == Range(process_infos)

SnapshotIds == {e.process_id : e \in Entries}

\* the processes whose parent is p; a process is not its own child
SnapshotChildren(p) ==
    {e.process_id : e \in {x \in Entries : x.parent_process_id = p /\ x.process_id # p}}

RECURSIVE Reach(_, _)
Reach(frontier, seen) ==
    LET new == (UNION {SnapshotChildren(p) : p \in frontier}) \ seen
    IN  IF new = {} THEN seen ELSE Reach(new, seen \cup new)

ProperDescendants(p) == Reach({p}, {})

\* the graph of the ChildProcessIdMap that was built
MapChildren(p) ==
    IF p \in DOMAIN child_process_id_map THEN Range(child_process_id_map[p]) ELSE {}

RECURSIVE MapReach(_, _)
MapReach(frontier, seen) ==
    LET new == (UNION {MapChildren(p) : p \in frontier}) \ seen
    IN  IF new = {} THEN seen ELSE MapReach(new, seen \cup new)

ReachableInMap(p) == MapReach({p}, {p})

NoDuplicates(s) == \A i, j \in 1..Len(s) : s[i] = s[j] => i = j

\* get_process_ids_to_kill has returned its list
SearchReturned ==
    \/ pc \in {"kill_loop", "kill_await"}
    \/ pc = "done" /\ process_infos # << >>

KilledIds == {kill_log[i].process_id : i \in 1..Len(kill_log)}

InvokedIds == [i \in 1..Len(kill_log) |-> kill_log[i].process_id]

(***************************************************************************)
(* Properties.                                                             *)
(***************************************************************************)

\* C1: children before parents. Whenever kill has been invoked on a process,
\* it has been invoked before on every proper descendant of that process in
\* the snapshot; and kill is invoked on the target only as the last id of the
\* list, so that a call that succeeds with include_target ends with the target.
C1_ChildrenBeforeParents ==
    /\ \A j \in 1..Len(kill_log) :
          \A d \in ProperDescendants(kill_log[j].process_id) :
             \E i \in 1..(j - 1) : kill_log[i].process_id = d
    /\ \A j \in 1..Len(kill_log) :
          kill_log[j].process_id = process_id =>
             /\ include_target
             /\ j = Len(kill_log)
             /\ j = Len(process_ids_to_kill)
    /\ (pc = "done" /\ result.tag = "Ok" /\ include_target) =>
          /\ kill_log # << >>
          /\ Last(kill_log).process_id = process_id

\* a call that killed a chain target -> child -> grandchild, target last
C1_Witness ==
    /\ pc = "done"
    /\ result.tag = "Ok"
    /\ include_target
    /\ Len(kill_log) = MaxPid
    /\ \E c \in SnapshotChildren(process_id) :
          \E g \in SnapshotChildren(c) : g # process_id
    /\ Last(kill_log).process_id = process_id

\* C2: with include_target, the list get_process_ids_to_kill returns holds the
\* ids reachable from the target in the ChildProcessIdMap, each exactly once,
\* and no other id.
C2_ReachableExactlyOnce ==
    (SearchReturned /\ include_target) =>
        /\ Range(process_ids_to_kill) = ReachableInMap(process_id)
        /\ NoDuplicates(process_ids_to_kill)

\* a returned list of the target and a child while the snapshot holds an id
\* outside the tree of the target
C2_Witness ==
    /\ SearchReturned
    /\ include_target
    /\ Len(process_ids_to_kill) >= 2
    /\ SnapshotChildren(process_id) # {}
    /\ SnapshotIds \ Range(process_ids_to_kill) # {}

\* C3: with include_target = false the target is never listed, never killed
\* and never reported, while its descendants are all listed once the search
\* has returned and kill has been invoked on all of them when the call succeeds.
C3_TargetExcluded ==
    ~include_target =>
        /\ process_id \notin Range(process_ids_to_kill)
        /\ process_id \notin Range(InvokedIds)
        /\ \A i \in 1..Len(outputs) : outputs[i].process_id # process_id
        /\ (pc = "done" /\ result.tag = "Ok") =>
              \A i \in 1..Len(result.outputs) : result.outputs[i].process_id # process_id
        /\ SearchReturned =>
              ProperDescendants(process_id) \subseteq Range(process_ids_to_kill)
        /\ (pc = "done" /\ result.tag = "Ok") =>
              ProperDescendants(process_id) \subseteq Range(InvokedIds)

\* a successful call on a target that is in the snapshot and has a child and a
\* grandchild, the target left out
C3_Witness ==
    /\ pc = "done"
    /\ result.tag = "Ok"
    /\ ~include_target
    /\ process_id \in SnapshotIds
    /\ \E c \in SnapshotChildren(process_id) : SnapshotChildren(c) # {}
    /\ Len(result.outputs) >= 2

\* C4: a hard failure of the Terminator is the last kill invoked: the call is
\* over, its value is that error and carries no Outputs, and the processes
\* terminated before are still terminated.
C4_HardFailureAborts ==
    \A k \in 1..Len(kill_log) :
        kill_log[k].output.tag = "Err" =>
            /\ k = Len(kill_log)
            /\ pc = "done"
            /\ result = kill_log[k].output
            /\ "outputs" \notin DOMAIN result
            /\ \A i \in 1..(k - 1) :
                  kill_log[i].calls.term = "S_OK" =>
                      kill_log[i].process_id \in terminated

\* the second kill failed hard with ids left in the list and an Output gathered
C4_Witness ==
    /\ pc = "done"
    /\ result.tag = "Err"
    /\ Len(kill_log) = 2
    /\ Len(process_ids_to_kill) = 3
    /\ outputs # << >>
    /\ kill_log[1].process_id \in terminated

\* the entry of the snapshot for an id (ids are unique in a snapshot)
SnapshotEntry(id) == CHOOSE e \in Entries : e.process_id = id

RECURSIVE ExpectedOutputs(_)
\* the Outputs the outcomes of a kill log call for, read off the snapshot
ExpectedOutputs(log) ==
    IF log = << >> THEN << >>
    ELSE LET e == Head(log)
             rest == ExpectedOutputs(Tail(log))
         IN  IF e.output.tag = "MaybeAlreadyTerminated"
             THEN << e.output >> \o rest
             ELSE IF e.output.tag = "Killed" /\ e.process_id \in SnapshotIds
                  THEN << [tag |-> "Killed", process_id |-> e.process_id,
                           parent_process_id |->
                               SnapshotEntry(e.process_id).parent_process_id] >> \o rest
                  ELSE rest

\* C5: MaybeAlreadyTerminated is no error. As long as every outcome is Killed
\* or MaybeAlreadyTerminated, the Outputs are, in kill order, one
\* MaybeAlreadyTerminated entry per id so classified and one Killed entry per
\* killed id of the snapshot; the call then ends with success, having invoked
\* kill on the whole reversed list.
C5_MaybeAlreadyTerminatedIsSuccess ==
    (SearchReturned /\ \A i \in 1..Len(kill_log) : kill_log[i].output.tag # "Err") =>
        /\ outputs = ExpectedOutputs(kill_log)
        /\ pc = "done" =>
              /\ result = OkOutputs(outputs)
              /\ InvokedIds = Reverse(process_ids_to_kill)

\* a successful call whose Outputs mix both kinds, the target being unknown to
\* the snapshot in one of them
C5_Witness ==
    /\ pc = "done"
    /\ result.tag = "Ok"
    /\ Len(kill_log) = MaxPid
    /\ \E i, j \in 1..Len(result.outputs) :
          /\ result.outputs[i].tag = "MaybeAlreadyTerminated"
          /\ result.outputs[j].tag = "Killed"

\* C7: validation comes first. When it fails the Snapshot Provider is never
\* called, kill is never invoked and the call is over with InvalidProcessId;
\* enumeration and kills happen only after validation succeeded.
C7_ValidationFirst ==
    /\ validated = "err" =>
          /\ enumerated = 0
          /\ kill_log = << >>
          /\ terminated = {}
          /\ pc = "done"
          /\ result.tag = "Err"
          /\ result.kind = "InvalidProcessId"
          /\ result.process_id = process_id
    /\ (enumerated > 0 \/ kill_log # << >>) => validated = "ok"

\* the call on the System process is over, rejected
C7_Witness ==
    /\ pc = "done"
    /\ validated = "err"
    /\ process_id = SYSTEM_PROCESS_ID

AllJoined == \A i \in 1..Len(kill_log) : kill_log[i].calls # NoCalls

C9_OneKillInFlight ==
    /\ Cardinality(in_flight) <= 1
    /\ next_index = Len(kill_log)
    /\ \A k \in in_flight :
          /\ k = Len(kill_log) + 1
          /\ pc = "kill_await"
    /\ pc = "kill_await" => in_flight = {next_index + 1}
    /\ pc = "done" => in_flight = {}

\* the second kill of a tokio call is in flight, the first one recorded
C9_Witness ==
    /\ mode = "tokio"
    /\ in_flight = {2}
    /\ Len(kill_log) = 1

\* C10: a ProcessInfoMap entry is consumed at most once. An id whose kill
\* came back Killed is no longer in the map, and no two Killed Outputs carry
\* the same process id, also when the kill list holds an id more than once.
C10_KilledReportedOnce ==
    /\ \A i \in 1..Len(kill_log) :
          kill_log[i].output.tag = "Killed" =>
              kill_log[i].process_id \notin DOMAIN process_info_map
    /\ \A i, j \in 1..Len(outputs) :
          (/\ outputs[i].tag = "Killed"
           /\ outputs[j].tag = "Killed"
           /\ outputs[i].process_id = outputs[j].process_id) => i = j
    /\ (pc = "done" /\ result.tag = "Ok") => result.outputs = outputs

\* a successful call that killed the same id twice and reports it once
C10_Witness ==
    /\ pc = "done"
    /\ result.tag = "Ok"
    /\ \E i, j \in 1..Len(kill_log) :
          /\ i < j
          /\ kill_log[i].process_id = kill_log[j].process_id
          /\ kill_log[i].output.tag = "Killed"
          /\ kill_log[j].output.tag = "Killed"
          /\ Cardinality({n \in 1..Len(result.outputs) :
                             result.outputs[n].process_id = kill_log[i].process_id}) = 1

(***************************************************************************)
(* The same entries in another order: the search is run on a snapshot in   *)
(* ascending id order, then again on a reordering of it, as a second       *)
(* enumeration or another completion order of the lookups would return it. *)
(***************************************************************************)
\* kill_tree_internal entered with the given process infos and target ids
InitKillTreeInternal(infos, ids) ==
    /\ pc = "kill_tree_internal"
    /\ platform = "windows"
    /\ mode = "blocking"
    /\ process_id \in ids
    /\ include_target \in BOOLEAN
    /\ validated = "none"
    /\ enumerated = 0
    /\ process_infos \in infos
    /\ child_process_id_map = << >>
    /\ queue = << >>
    /\ process_ids_to_kill = << >>
    /\ process_info_map = << >>
    /\ next_index = 0
    /\ outputs = << >>
    /\ result = Pending
    /\ kill_log = << >>
    /\ terminated = {}
    /\ in_flight = {}
    /\ blocking_run = None
    /\ adapter = None

\* every order of the entries of infos (its entries are pairwise different)
Orderings(infos) ==
    {t \in [1..Len(infos) -> Range(infos)] : Range(t) = Range(infos)}

\* the first search has returned: keep its map and its list, and start over on
\* a reordering of the same entries
SearchReordered ==
    /\ pc = "kill_loop"
    /\ blocking_run = None
    /\ blocking_run' = [tag                  |-> "Search",
                        process_infos        |-> process_infos,
                        child_process_id_map |-> child_process_id_map,
                        process_ids_to_kill  |-> process_ids_to_kill]
    /\ process_infos' \in Orderings(process_infos)
    /\ pc' = "kill_tree_internal"
    /\ child_process_id_map' = << >>
    /\ queue' = << >>
    /\ process_ids_to_kill' = << >>
    /\ process_info_map' = << >>
    /\ UNCHANGED << adapter, platform, mode, process_id, include_target, validated,
                    enumerated, next_index, outputs, result, kill_log, terminated,
                    in_flight >>

InitOrder == InitKillTreeInternal({s \in Snapshots : Ascending(s)}, 1..MaxPid)

NextOrder ==
    \/ BuildChildProcessIdMap
    \/ BfsStep
    \/ BfsReturn
    \/ SearchReordered

SpecOrder == InitOrder /\ [][NextOrder]_vars

\* C11: the traversal is deterministic. For two orderings of the same set of
\* snapshot entries, get_child_process_id_map builds the same map and
\* get_process_ids_to_kill returns the same discovery order, hence the same
\* kill order (its reverse).
C11_OrderIndependent ==
    blocking_run.tag = "Search" =>
       /\ Range(process_infos) = Range(blocking_run.process_infos)
       /\ pc \in {"get_process_ids_to_kill", "kill_loop"} =>
             child_process_id_map = blocking_run.child_process_id_map
       /\ pc = "kill_loop" =>
             /\ process_ids_to_kill = blocking_run.process_ids_to_kill
             /\ Reverse(process_ids_to_kill)
                   = Reverse(blocking_run.process_ids_to_kill)

\* the second search returned on entries in another order than the first, a
\* parent with two children among them, listed after it
C11_Witness ==
    /\ blocking_run.tag = "Search"
    /\ pc = "kill_loop"
    /\ process_infos # blocking_run.process_infos
    /\ \E k \in DOMAIN child_process_id_map :
          /\ Len(child_process_id_map[k]) >= 2
          /\ \A c \in Range(child_process_id_map[k]) : c \in Range(process_ids_to_kill)

(***************************************************************************)
(* The windows adapter call by call: blocking::kill and                    *)
(* blocking::get_process_infos as the sequence of their Win32 calls, with  *)
(* the handles they obtain and the handles they pass to CloseHandle.       *)
(***************************************************************************)
\* the locals of an adapter function: the handles obtained, the handles passed
\* to CloseHandle, the Win32 calls made with their HRESULTs, the local
\* `result` of kill or `error` of get_process_infos, and the PROCESSENTRY32
AdapterLocals(op) ==
    [op |-> op, opened |-> << >>, closed |-> << >>, calls |-> << >>,
     local |-> None, entry |-> None]

Called(a, call, hresult) ==
    [a EXCEPT !.calls = Append(@, [call |-> call, hresult |-> hresult])]

\* the HRESULT of the last call of that name, "-" when it was never called
HResult(call) ==
    LET made == {i \in 1..Len(adapter.calls) : adapter.calls[i].call = call}
    IN  IF made = {} THEN "-"
        ELSE adapter.calls[CHOOSE i \in made : \A j \in made : j <= i].hresult

InitAdapter ==
    /\ pc \in {"open_process", "create_snapshot"}
    /\ platform = "windows"
    /\ mode = "blocking"
    /\ process_id \in 1..MaxPid
    /\ include_target = TRUE
    /\ validated = "none"
    /\ enumerated = 0
    /\ process_infos = << >>
    /\ child_process_id_map = << >>
    /\ queue = << >>
    /\ process_ids_to_kill = << >>
    /\ process_info_map = << >>
    /\ next_index = 0
    /\ outputs = << >>
    /\ result = Pending
    /\ kill_log = << >>
    /\ terminated = {}
    /\ in_flight = {}
    /\ blocking_run = None
    /\ adapter = AdapterLocals(IF pc = "open_process" THEN "kill"
                               ELSE "get_process_infos")

\* kill, line 66 and the Err arm of its match, lines 89-101
OpenProcess ==
    /\ pc = "open_process"
    /\ \E open \in OpenProcessResults :
          IF open = "S_OK"
          THEN /\ adapter' = [Called(adapter, "OpenProcess", open)
                                 EXCEPT !.opened = Append(@, "process_handle")]
               /\ pc' = "terminate_process"
               /\ UNCHANGED result
          ELSE /\ adapter' = Called(adapter, "OpenProcess", open)
               /\ result' = IF open = "E_INVALIDARG"
                            THEN MaybeAlreadyTerminated(process_id, open)
                            ELSE WindowsError(open)
               /\ pc' = "returned"
    /\ UNCHANGED << platform, mode, process_id, include_target, validated, enumerated,
                    process_infos, child_process_id_map, queue, process_ids_to_kill,
                    process_info_map, next_index, outputs, kill_log, terminated,
                    in_flight, blocking_run >>

\* kill returning TerminateProcess's error with `?`
TerminateProcessReturnsEarly ==
    /\ pc = "terminate_process"
    /\ \E term \in TerminateProcessResults :
          /\ adapter' = [Called(adapter, "TerminateProcess", term)
                            EXCEPT !.local = IF term = "S_OK"
                                             THEN KilledOutput(process_id)
                                             ELSE @]
          /\ terminated' = IF term = "S_OK" THEN terminated \cup {process_id}
                           ELSE terminated
          /\ IF term = "S_OK"
             THEN pc' = "close_process_handle" /\ UNCHANGED result
             ELSE pc' = "returned" /\ result' = WindowsError(term)
    /\ UNCHANGED << platform, mode, process_id, include_target, validated, enumerated,
                    process_infos, child_process_id_map, queue, process_ids_to_kill,
                    process_info_map, next_index, outputs, kill_log, in_flight,
                    blocking_run >>

\* kill, lines 71-85: TerminateProcess and the local `result`
TerminateProcess ==
    /\ pc = "terminate_process"
    /\ \E term \in TerminateProcessResults :
          /\ adapter' = [Called(adapter, "TerminateProcess", term)
                            EXCEPT !.local =
                               IF term = "S_OK" THEN KilledOutput(process_id)
                               ELSE IF term = "E_ACCESSDENIED"
                                    THEN MaybeAlreadyTerminated(process_id, term)
                                    ELSE WindowsError(term)]
          /\ terminated' = IF term = "S_OK" THEN terminated \cup {process_id}
                           ELSE terminated
    /\ pc' = "close_process_handle"
    /\ UNCHANGED << platform, mode, process_id, include_target, validated, enumerated,
                    process_infos, child_process_id_map, queue, process_ids_to_kill,
                    process_info_map, next_index, outputs, result, kill_log,
                    in_flight, blocking_run >>

\* kill, lines 87-88: CloseHandle(process_handle)? and the return of `result`
CloseProcessHandle ==
    /\ pc = "close_process_handle"
    /\ \E close \in CloseHandleResults :
          /\ adapter' = [Called(adapter, "CloseHandle", close)
                            EXCEPT !.closed = Append(@, "process_handle")]
          /\ result' = IF close = "S_OK" THEN adapter.local ELSE WindowsError(close)
    /\ pc' = "returned"
    /\ UNCHANGED << platform, mode, process_id, include_target, validated, enumerated,
                    process_infos, child_process_id_map, queue, process_ids_to_kill,
                    process_info_map, next_index, outputs, kill_log, terminated,
                    in_flight, blocking_run >>

\* the entries the snapshot can still yield: one entry per process id
UnlistedEntries(infos) ==
    {r \in ProcessInfoRecords :
        \A i \in 1..Len(infos) : infos[i].process_id # r.process_id}

\* get_process_infos, line 112: CreateToolhelp32Snapshot(TH32CS_SNAPPROCESS, 0)?
CreateToolhelp32Snapshot ==
    /\ pc = "create_snapshot"
    /\ \E create \in {"S_OK", "E_FAIL"} :
          IF create = "S_OK"
          THEN /\ adapter' = [Called(adapter, "CreateToolhelp32Snapshot", create)
                                 EXCEPT !.opened = Append(@, "snapshot_handle")]
               /\ pc' = "process32_first"
               /\ UNCHANGED result
          ELSE /\ adapter' = Called(adapter, "CreateToolhelp32Snapshot", create)
               /\ result' = WindowsError(create)
               /\ pc' = "returned"
    /\ UNCHANGED << platform, mode, process_id, include_target, validated, enumerated,
                    process_infos, child_process_id_map, queue, process_ids_to_kill,
                    process_info_map, next_index, outputs, kill_log, terminated,
                    in_flight, blocking_run >>

\* get_process_infos, lines 115-120 and 140-143: Process32First fills
\* process_entry or fails; the size of PROCESSENTRY32 always fits a u32
Process32First ==
    /\ pc = "process32_first"
    /\ \E first \in {"S_OK", "E_FAIL"}, entry \in UnlistedEntries(process_infos) :
          IF first = "S_OK"
          THEN /\ adapter' = [Called(adapter, "Process32First", first)
                                 EXCEPT !.entry = entry]
               /\ pc' = "process32_next"
          ELSE /\ adapter' = [Called(adapter, "Process32First", first)
                                 EXCEPT !.local = WindowsError(first)]
               /\ pc' = "close_snapshot_handle"
    /\ UNCHANGED << platform, mode, process_id, include_target, validated, enumerated,
                    process_infos, child_process_id_map, queue, process_ids_to_kill,
                    process_info_map, next_index, outputs, result, kill_log,
                    terminated, in_flight, blocking_run >>

\* get_process_infos, lines 122-139: one turn of the loop, which pushes
\* process_entry and calls Process32Next; the walk yields another entry only
\* while the snapshot holds a process not listed yet
Process32Next ==
    /\ pc = "process32_next"
    /\ process_infos' = Append(process_infos, adapter.entry)
    /\ \E next \in {"S_OK", "ERROR_NO_MORE_FILES", "E_FAIL"} :
          IF next = "S_OK"
          THEN /\ UnlistedEntries(process_infos') # {}
               /\ \E entry \in UnlistedEntries(process_infos') :
                     adapter' = [Called(adapter, "Process32Next", next)
                                    EXCEPT !.entry = entry]
               /\ UNCHANGED pc
          ELSE /\ adapter' = [Called(adapter, "Process32Next", next)
                                 EXCEPT !.local = IF next = "ERROR_NO_MORE_FILES"
                                                  THEN @ ELSE WindowsError(next)]
               /\ pc' = "close_snapshot_handle"
    /\ UNCHANGED << platform, mode, process_id, include_target, validated, enumerated,
                    child_process_id_map, queue, process_ids_to_kill,
                    process_info_map, next_index, outputs, result, kill_log,
                    terminated, in_flight, blocking_run >>

\* get_process_infos, lines 154-160: CloseHandle(snapshot_handle)? and the
\* return of `error` or of process_infos
CloseSnapshotHandle ==
    /\ pc = "close_snapshot_handle"
    /\ \E close \in CloseHandleResults :
          /\ adapter' = [Called(adapter, "CloseHandle", close)
                            EXCEPT !.closed = Append(@, "snapshot_handle")]
          /\ result' = IF close # "S_OK" THEN WindowsError(close)
                       ELSE IF adapter.local # None THEN adapter.local
                       ELSE [tag |-> "Ok", process_infos |-> process_infos]
    /\ pc' = "returned"
    /\ UNCHANGED << platform, mode, process_id, include_target, validated, enumerated,
                    process_infos, child_process_id_map, queue, process_ids_to_kill,
                    process_info_map, next_index, outputs, kill_log, terminated,
                    in_flight, blocking_run >>

NextAdapter ==
    \/ OpenProcess
    \/ TerminateProcess
    \/ CloseProcessHandle
    \/ CreateToolhelp32Snapshot
    \/ Process32First
    \/ Process32Next
    \/ CloseSnapshotHandle

SpecAdapter == InitAdapter /\ [][NextAdapter]_vars

\* the functions of the call-level steps and the functions used by the driver
\* return the same value for the same HRESULTs
AdapterStepsAgree ==
    pc = "returned" =>
       IF adapter.op = "kill"
       THEN result = WindowsKill(process_id, HResult("OpenProcess"),
                                 HResult("TerminateProcess"),
                                 HResult("CloseHandle")).output
       ELSE result = WindowsGetProcessInfos(HResult("CreateToolhelp32Snapshot"),
                                            HResult("Process32First"),
                                            process_infos,
                                            HResult("Process32Next"),
                                            HResult("CloseHandle"))

\* C12: get_process_infos returns an error only when the enumeration cannot
\* start, that is when the initial snapshot call fails (a failing
\* Process32First is counted with it); once entries are being gathered, a
\* failing step never fails the enumeration: the entries gathered are returned
\* as a success.
C12_ErrorOnlyAtStart ==
    (pc = "returned" /\ adapter.op = "get_process_infos") =>
       /\ result.tag = "Err" =>
             \/ HResult("CreateToolhelp32Snapshot") # "S_OK"
             \/ HResult("Process32First") # "S_OK"
       /\ process_infos # << >> =>
             result = [tag |-> "Ok", process_infos |-> process_infos]

\* C17: the three outcomes of kill. Killed whenever the process was opened and
\* TerminateProcess succeeded; MaybeAlreadyTerminated when OpenProcess fails
\* with E_INVALIDARG or TerminateProcess fails with E_ACCESSDENIED; an error in
\* every other case and only then.
C17_ThreeOutcomes ==
    (pc = "returned" /\ adapter.op = "kill") =>
       LET open    == HResult("OpenProcess")
           term    == HResult("TerminateProcess")
           killed  == open = "S_OK" /\ term = "S_OK"
           already == \/ open = "E_INVALIDARG"
                      \/ open = "S_OK" /\ term = "E_ACCESSDENIED"
       IN  /\ killed => result = KilledOutput(process_id)
           /\ already => /\ result.tag = "MaybeAlreadyTerminated"
                         /\ result.process_id = process_id
           /\ result.tag = "Err" <=> ~(killed \/ already)

\* C20: every handle obtained by kill (OpenProcess) and by get_process_infos
\* (CreateToolhelp32Snapshot) is passed to CloseHandle exactly once before the
\* function returns, on every path; no handle is closed that was not obtained,
\* and none is closed twice.
C20_HandlesClosedOnce ==
    adapter # None =>
       /\ Len(adapter.closed) <= Len(adapter.opened)
       /\ \A i \in 1..Len(adapter.closed) : adapter.closed[i] = adapter.opened[i]
       /\ NoDuplicates(adapter.opened)
       /\ pc = "returned" => adapter.closed = adapter.opened
       /\ HResult("OpenProcess") = "S_OK" => adapter.opened = << "process_handle" >>
       /\ HResult("CreateToolhelp32Snapshot") = "S_OK"
             => adapter.opened = << "snapshot_handle" >>

\* kill returned an error of TerminateProcess, and get_process_infos an error
\* of Process32Next, each with its handle closed
C20_Witness ==
    /\ pc = "returned"
    /\ result.tag = "Err"
    /\ adapter.closed = adapter.opened
    /\ adapter.opened # << >>
    /\ \/ HResult("TerminateProcess") = "E_FAIL"
       \/ HResult("Process32Next") = "E_FAIL"
    /\ HResult("CloseHandle") = "S_OK"

(***************************************************************************)
(* kill_tree_internal on the snapshots and on the tree of the end-to-end   *)
(* scenarios: 1 <- 0, 2 <- 1, 3 <- 2, 4 <- 1.                              *)
(***************************************************************************)
ScenarioInfos ==
    << [process_id |-> 1, parent_process_id |-> 0],
       [process_id |-> 2, parent_process_id |-> 1],
       [process_id |-> 3, parent_process_id |-> 2],
       [process_id |-> 4, parent_process_id |-> 1] >>

InitScenario == InitKillTreeInternal(Snapshots \cup {ScenarioInfos}, 1..MaxPid)

SpecScenario == InitScenario /\ [][KillTreeInternal]_vars

\* the parent of a listed id, and its distance from the target
ParentOf(id) == SnapshotEntry(id).parent_process_id

RECURSIVE Depth(_)
Depth(id) == IF id = process_id THEN 0 ELSE 1 + Depth(ParentOf(id))

\* the position of id in the list; 0 for the target left out of it
Position(id) ==
    IF id \in Range(process_ids_to_kill)
    THEN CHOOSE i \in 1..Len(process_ids_to_kill) : process_ids_to_kill[i] = id
    ELSE 0

\* a comes before b in breadth-first level order
LevelOrdered(a, b) ==
    \/ Depth(a) < Depth(b)
    \/ /\ Depth(a) = Depth(b)
       /\ a # process_id
       /\ b # process_id
       /\ \/ Position(ParentOf(a)) < Position(ParentOf(b))
          \/ ParentOf(a) = ParentOf(b) /\ a < b

KeptEntries(id, parent) ==
    Cardinality({i \in 1..Len(process_infos) :
                    /\ process_infos[i].process_id = id
                    /\ process_infos[i].parent_process_id = parent
                    /\ process_infos[i].process_id # process_infos[i].parent_process_id})

Occurrences(s, x) == Cardinality({i \in 1..Len(s) : s[i] = x})

\* C14: in the map get_child_process_id_map returns, every children list is
\* sorted ascending and holds exactly the ids of the non-filtered entries whose
\* parent is the key; no filtered entry (a process that is its own parent)
\* is in any list.
C14_ChildrenListsSorted ==
    pc \in {"get_process_ids_to_kill", "kill_loop"} =>
       /\ DOMAIN child_process_id_map
             = {e.parent_process_id :
                   e \in {x \in Entries : x.process_id # x.parent_process_id}}
       /\ \A k \in DOMAIN child_process_id_map :
             LET children == child_process_id_map[k]
             IN  /\ \A i \in 1..(Len(children) - 1) : children[i] <= children[i + 1]
                 /\ \A id \in SnapshotIds \cup Range(children) :
                       Occurrences(children, id) = KeptEntries(id, k)
                 /\ k \notin Range(children)

\* a map built from entries that list two children of one parent in descending
\* order, next to a process that is its own parent
C14_Witness ==
    /\ pc \in {"get_process_ids_to_kill", "kill_loop"}
    /\ \E e \in Entries : e.process_id = e.parent_process_id
    /\ \E i, j \in 1..Len(process_infos) :
          /\ i < j
          /\ process_infos[i].process_id > process_infos[j].process_id
          /\ process_infos[i].parent_process_id = process_infos[j].parent_process_id
          /\ process_infos[j].parent_process_id # process_infos[j].process_id
          /\ process_infos[i].parent_process_id \in DOMAIN child_process_id_map
          /\ Len(child_process_id_map[process_infos[i].parent_process_id]) >= 2

(***************************************************************************)
(* kill_tree_internal attempt by attempt, on the shorter process infos     *)
(* that repeat a process id.                                               *)
(***************************************************************************)
RepeatedInfos == {infos \in DuplicateInfos : Len(infos) <= MaxPid}

InitAttempts == InitKillTreeInternal(RepeatedInfos, InternalTargetIds)

SpecAttempts == InitAttempts /\ [][KillTreeInternal]_vars

RECURSIVE IsSubsequence(_, _)
\* the ids of outs are ids of attempts, in the same order
IsSubsequence(outs, attempts) ==
    IF outs = << >> THEN TRUE
    ELSE IF attempts = << >> THEN FALSE
    ELSE IF Head(outs).process_id = Head(attempts).process_id
            /\ Head(outs).tag = Head(attempts).output.tag
         THEN IsSubsequence(Tail(outs), Tail(attempts))
         ELSE IsSubsequence(outs, Tail(attempts))

\* what one kill attempt does to the Outputs
AttemptReported ==
    kill_log' # kill_log =>
       LET attempt == Last(kill_log')
           id      == attempt.process_id
       IN  /\ kill_log' = Append(kill_log, attempt)
           /\ attempt.output.tag = "Killed" =>
                 IF id \in DOMAIN process_info_map
                 THEN outputs' = Append(outputs,
                                        [tag               |-> "Killed",
                                         process_id        |-> id,
                                         parent_process_id |->
                                            process_info_map[id].parent_process_id])
                 ELSE /\ outputs' = outputs
                      /\ pc' = "kill_loop"
                      /\ result' = Pending
           /\ attempt.output.tag = "MaybeAlreadyTerminated" =>
                 /\ outputs' = Append(outputs, attempt.output)
                 /\ pc' = "kill_loop"
           /\ attempt.output.tag = "Err" => outputs' = outputs

OutputsFromAttempts ==
    /\ \A i \in 1..Len(outputs) :
          outputs[i].tag = "Killed" =>
             /\ outputs[i].process_id \in SnapshotIds
             /\ \E e \in Entries :
                   /\ e.process_id = outputs[i].process_id
                   /\ e.parent_process_id = outputs[i].parent_process_id
    /\ IsSubsequence(outputs, kill_log)

\* C15: what a kill attempt appends to the Outputs depends only on its outcome
\* and on the ProcessInfoMap. A Killed outcome for p yields a Killed Output,
\* with the parent id of p's entry, iff p is in the map at that moment, and
\* otherwise no Output and no error; a MaybeAlreadyTerminated outcome always
\* yields a MaybeAlreadyTerminated Output. Hence every Killed Output names an id
\* of the snapshot, and the Outputs are a subsequence of the attempts in
\* attempt order.
C15_OutputPerOutcome == [][AttemptReported]_vars /\ []OutputsFromAttempts

\* a call that reported a Killed process, got Killed again for an id no longer
\* in the map without reporting it, and reported a MaybeAlreadyTerminated
\* outcome for an id that is not in the map
C15_Witness ==
    /\ pc = "done"
    /\ result.tag = "Ok"
    /\ \E i, j, k \in 1..Len(kill_log) :
          /\ i < j
          /\ kill_log[i].output.tag = "Killed"
          /\ kill_log[j].output.tag = "Killed"
          /\ kill_log[i].process_id = kill_log[j].process_id
          /\ kill_log[k].output.tag = "MaybeAlreadyTerminated"
          /\ kill_log[k].process_id \notin DOMAIN process_info_map
          /\ Len(outputs) = 2

\* C16: a target that has no entry in the ChildProcessIdMap and is not in the
\* snapshot. The list is [target] with include_target and empty without it;
\* with include_target kill is invoked exactly once, on the target, and a
\* Killed outcome yields no Output, so that the call succeeds with empty
\* Outputs.
C16_UnknownTarget ==
    (SearchReturned /\ process_id \notin SnapshotIds
                    /\ process_id \notin DOMAIN child_process_id_map) =>
       /\ process_ids_to_kill = IF include_target THEN << process_id >> ELSE << >>
       /\ Len(kill_log) <= 1
       /\ \A i \in 1..Len(kill_log) : kill_log[i].process_id = process_id
       /\ ~include_target => kill_log = << >>
       /\ (include_target /\ pc = "done") => Len(kill_log) = 1
       /\ (kill_log # << >> /\ kill_log[1].output.tag = "Killed") =>
             /\ outputs = << >>
             /\ pc = "done" => result = OkOutputs(<< >>)

\* the call on a target outside the snapshot ended with success after one
\* Killed outcome
C16_Witness ==
    /\ pc = "done"
    /\ include_target
    /\ process_id \notin SnapshotIds
    /\ process_id \notin DOMAIN child_process_id_map
    /\ Len(kill_log) = 1
    /\ kill_log[1].output.tag = "Killed"
    /\ result = OkOutputs(<< >>)

(***************************************************************************)
(* The macos Snapshot Provider: get_process_infos lists the process ids,   *)
(* spawns one get_process_info task per id on a JoinSet and joins the      *)
(* tasks in the order they complete.                                       *)
(***************************************************************************)
\* the most process ids proc_listpids writes to the buffer
MaxLookups == 3

\* the values of the buffer: a process id, the zero the buffer is filled with,
\* and a negative value, which u32::try_from rejects
ListedPids == {-1, 0, 1}

PidBuffers == UNION {[1..n -> ListedPids] : n \in 1..MaxLookups}

IoError == [tag |-> "Err", kind |-> "Io"]

Some(info) == [tag |-> "Some", info |-> info]

\* what a get_process_info task can end with: a record for its process id,
\* None, or a panic that join_next reports as a JoinError
LookupResults(id) ==
    {Some([process_id |-> id, parent_process_id |-> 0]), None, JoinError}

InitMacos ==
    /\ pc = "proc_listpids"
    /\ platform = "macos"
    /\ mode = "tokio"
    /\ process_id \in 1..MaxPid
    /\ include_target = TRUE
    /\ validated = "ok"
    /\ enumerated = 0
    /\ process_infos = << >>
    /\ child_process_id_map = << >>
    /\ queue = << >>
    /\ process_ids_to_kill = << >>
    /\ process_info_map = << >>
    /\ next_index = 0
    /\ outputs = << >>
    /\ result = Pending
    /\ kill_log = << >>
    /\ terminated = {}
    /\ in_flight = {}
    /\ blocking_run = None
    /\ adapter = [op |-> "get_process_infos", process_ids |-> << >>, next |-> 1,
                  tasks |-> << >>]

\* get_process_infos, lines 70-95: the two proc_listpids calls; each fails the
\* enumeration when it returns no more than 0
ProcListpids ==
    /\ pc = "proc_listpids"
    /\ \E size_ok \in BOOLEAN, list_ok \in BOOLEAN, buffer \in PidBuffers :
          IF size_ok /\ list_ok
          THEN /\ adapter' = [adapter EXCEPT !.process_ids = buffer]
               /\ pc' = "spawn"
               /\ UNCHANGED result
          ELSE /\ result' = IoError
               /\ pc' = "returned"
               /\ UNCHANGED adapter
    /\ enumerated' = enumerated + 1
    /\ UNCHANGED << platform, mode, process_id, include_target, validated,
                    process_infos, child_process_id_map, queue, process_ids_to_kill,
                    process_info_map, next_index, outputs, kill_log, terminated,
                    in_flight, blocking_run >>

\* a task of the JoinSet: the id it looks up, whether it is spawned, finished
\* or joined, and its output once it has finished
Task(id) == [process_id |-> id, state |-> "spawned", output |-> None]

\* get_process_infos, lines 96-106: one turn of the loop over the buffer
SpawnGetProcessInfo ==
    /\ pc = "spawn"
    /\ adapter.next <= Len(adapter.process_ids)
    /\ LET process_id_sign == adapter.process_ids[adapter.next]
       IN  adapter' = [adapter EXCEPT
                          !.next = @ + 1,
                          !.tasks = IF process_id_sign < 0 THEN @
                                    ELSE Append(@, Task(process_id_sign))]
    /\ UNCHANGED << pc, platform, mode, process_id, include_target, validated,
                    enumerated, process_infos, child_process_id_map, queue,
                    process_ids_to_kill, process_info_map, next_index, outputs,
                    result, kill_log, terminated, in_flight, blocking_run >>

\* get_process_infos, line 107: the buffer is used up
SpawnedAll ==
    /\ pc = "spawn"
    /\ adapter.next > Len(adapter.process_ids)
    /\ process_infos' = << >>
    /\ pc' = "join_next"
    /\ UNCHANGED << adapter, platform, mode, process_id, include_target, validated,
                    enumerated, child_process_id_map, queue, process_ids_to_kill,
                    process_info_map, next_index, outputs, result, kill_log,
                    terminated, in_flight, blocking_run >>

\* get_process_info: a spawned task runs to its end, at any time after its spawn
GetProcessInfo ==
    /\ pc \in {"spawn", "join_next"}
    /\ \E t \in 1..Len(adapter.tasks) :
          /\ adapter.tasks[t].state = "spawned"
          /\ \E out \in LookupResults(adapter.tasks[t].process_id) :
                adapter' = [adapter EXCEPT !.tasks[t].state = "finished",
                                           !.tasks[t].output = out]
    /\ UNCHANGED << pc, platform, mode, process_id, include_target, validated,
                    enumerated, process_infos, child_process_id_map, queue,
                    process_ids_to_kill, process_info_map, next_index, outputs,
                    result, kill_log, terminated, in_flight, blocking_run >>

\* the join loop leaving at the first task that failed
JoinNextStopsOnFailure ==
    /\ pc = "join_next"
    /\ \E t \in 1..Len(adapter.tasks) :
          /\ adapter.tasks[t].state = "finished"
          /\ adapter' = [adapter EXCEPT !.tasks[t].state = "joined"]
          /\ LET out == adapter.tasks[t].output
             IN  IF out = JoinError
                 THEN /\ pc' = "returned"
                      /\ result' = [tag |-> "Ok", process_infos |-> process_infos]
                      /\ UNCHANGED process_infos
                 ELSE /\ process_infos' = IF out.tag = "Some"
                                          THEN Append(process_infos, out.info)
                                          ELSE process_infos
                      /\ UNCHANGED << pc, result >>
    /\ UNCHANGED << platform, mode, process_id, include_target, validated, enumerated,
                    child_process_id_map, queue, process_ids_to_kill,
                    process_info_map, next_index, outputs, kill_log, terminated,
                    in_flight, blocking_run >>

\* get_process_infos, lines 108-119: join_next yields a task that has finished;
\* a JoinError and a None are passed over, a record is pushed
JoinNext ==
    /\ pc = "join_next"
    /\ \E t \in 1..Len(adapter.tasks) :
          /\ adapter.tasks[t].state = "finished"
          /\ adapter' = [adapter EXCEPT !.tasks[t].state = "joined"]
          /\ LET out == adapter.tasks[t].output
             IN  process_infos' = IF out.tag = "Some"
                                  THEN Append(process_infos, out.info)
                                  ELSE process_infos
    /\ UNCHANGED << pc, platform, mode, process_id, include_target, validated,
                    enumerated, child_process_id_map, queue, process_ids_to_kill,
                    process_info_map, next_index, outputs, result, kill_log,
                    terminated, in_flight, blocking_run >>

\* get_process_infos, lines 108 and 120: join_next yields None once the JoinSet
\* is empty, and the function returns Ok(process_infos)
JoinSetEmpty ==
    /\ pc = "join_next"
    /\ \A t \in 1..Len(adapter.tasks) : adapter.tasks[t].state = "joined"
    /\ result' = [tag |-> "Ok", process_infos |-> process_infos]
    /\ pc' = "returned"
    /\ UNCHANGED << adapter, platform, mode, process_id, include_target, validated,
                    enumerated, process_infos, child_process_id_map, queue,
                    process_ids_to_kill, process_info_map, next_index, outputs,
                    kill_log, terminated, in_flight, blocking_run >>

NextMacos ==
    \/ ProcListpids
    \/ SpawnGetProcessInfo
    \/ SpawnedAll
    \/ GetProcessInfo
    \/ JoinNext
    \/ JoinSetEmpty

SpecMacos == InitMacos /\ [][NextMacos]_vars

\* the tasks that were joined with a record
JoinedWithRecord ==
    {t \in 1..Len(adapter.tasks) :
        adapter.tasks[t].state = "joined" /\ adapter.tasks[t].output.tag = "Some"}

\* C18: the concurrent enumeration of macos. Under every interleaving and
\* completion order of the lookups, get_process_infos returns only after every
\* spawned task has been joined, and the ProcessInfos hold exactly one entry
\* per lookup that produced a record: none lost, none duplicated, none partial.
\* A lookup that returned None and a task that failed add no entry and no
\* error.
C18_OneEntryPerLookup ==
    /\ \A v \in Range(process_infos) \cup
                {adapter.tasks[t].output.info : t \in JoinedWithRecord} :
          Occurrences(process_infos, v)
             = Cardinality({t \in JoinedWithRecord : adapter.tasks[t].output.info = v})
    /\ Len(process_infos) = Cardinality(JoinedWithRecord)
    /\ \A i \in 1..Len(process_infos) :
          \E t \in JoinedWithRecord :
             /\ process_infos[i].process_id = adapter.tasks[t].process_id
             /\ process_infos[i] = adapter.tasks[t].output.info
    /\ (pc = "returned" /\ adapter.process_ids # << >>) =>
          /\ result = [tag |-> "Ok", process_infos |-> process_infos]
          /\ Len(adapter.tasks)
                = Cardinality({i \in 1..Len(adapter.process_ids) :
                                  adapter.process_ids[i] >= 0})
          /\ \A t \in 1..Len(adapter.tasks) : adapter.tasks[t].state = "joined"

\* the enumeration returned two records, joined in the order opposite to the
\* order of the spawns, with a third lookup that produced none
C18_Witness ==
    /\ pc = "returned"
    /\ result.tag = "Ok"
    /\ Len(adapter.tasks) = 3
    /\ Len(process_infos) = 2
    /\ \E t, u \in JoinedWithRecord :
          /\ t < u
          /\ process_infos[1] = adapter.tasks[u].output.info
          /\ process_infos[2] = adapter.tasks[t].output.info
          /\ process_infos[1] # process_infos[2]

\* C19: get_process_ids_to_kill terminates, its queue becoming empty, for
\* every finite snapshot and every target, parent cycles of length two or more
\* through the target's descendants included. The loop is deterministic and an
\* id has one parent, so an id that is dequeued a second time enqueues again
\* what it enqueued the first time, and so on without end: a search that
\* terminates lists no id twice, and never lists more ids than the snapshot
\* and the target together provide.
C19_SearchTerminates ==
    /\ NoDuplicates(process_ids_to_kill)
    /\ Len(process_ids_to_kill) <= Cardinality(SnapshotIds \cup {process_id})

====
